---- MODULE Spec2Model ----
(***************************************************************************)
(* PicasaSync: a run of PicasaSync.py, from the parsed command line to the *)
(* end of sync(), and a second run after it.  The local file system and    *)
(* the Picasa account are the world a run reads and changes; googlecl,     *)
(* gdata, os and urllib are collaborators that may raise on any call.      *)
(*                                                                         *)
(* sync() is interpreted statement by statement.  `todo' holds the         *)
(* statements that remain of the loop body being executed, in program      *)
(* order; albums_left, remote_left and photos_left hold what the dict      *)
(* iterations (iteritems(), order unspecified) have not visited yet.       *)
(***************************************************************************)
EXTENDS Integers, Sequences, FiniteSets, TLC

VARIABLES
    pc,             \* position in run()/sync()
    argv,           \* the options as parsed from the command line
    options,        \* the options object, adjusted in place by run()
    disk,           \* local file system below the root: [dirs, files]
    remote,         \* Picasa account: [albums, photos]
    nextId,         \* next gphoto id the service hands out
    disk_albums,    \* sync(): result of get_disk_albums
    picasa_albums,  \* sync(): result of get_picasa_albums (title -> entry)
    picasa_photos,  \* sync(): result of the last get_picasa_photos
    albums_left,    \* disk_albums.iteritems() not yet visited
    remote_left,    \* picasa_albums.iteritems() not yet visited (line 262)
    photos_left,    \* picasa_photos.iteritems() not yet visited
    todo,           \* statements left of the current loop body
    new_album,      \* sync(): value returned by create_album
    album_path,     \* sync(): value returned by create_dir
    log,            \* the actions announced (message of each action function)
    calls,          \* mutating collaborator operations invoked so far
    failure,        \* the call whose exception ended the run, or "none"
    seen,           \* common photos that reached the comparison of line 248
    disk0,          \* the file system when the run started
    remote0,        \* the account when the run started
    warned,         \* functions that reported an error and returned
    run             \* which invocation of the program this is: 1 or 2

vars == <<pc, argv, options, disk, remote, nextId, disk_albums, picasa_albums,
          picasa_photos, albums_left, remote_left, photos_left, todo,
          new_album, album_path, log, calls, failure, seen,
          disk0, remote0, warned, run>>

(***************************************************************************)
(* Bounds and program constants                                            *)
(***************************************************************************)
MAX_PHOTOS_PER_ALBUM == 1000

MaxPaths == 2       \* PATH arguments on the command line: 1..MaxPaths
MaxTs == 2          \* local modification times: 1..MaxTs (seconds)
MaxFiles == 4       \* supported files of a directory in the split model
MaxCap == 4         \* --max-photos values in the split model: 1..MaxCap

Min(a, b) == IF a < b THEN a ELSE b

(***************************************************************************)
(* File names and MIME types                                               *)
(***************************************************************************)
Photo(i) == "img" \o ToString(i) \o ".jpg"

Notes == "notes.txt"

tmpfilename_final(filename) == filename

\* download_photo: tmpfilename = filename + '.part'
tmpfilename(filename) == filename \o ".part"

supported_types == {"image/jpeg", "image/tiff", "image/x-ms-bmp", "image/gif",
                    "image/x-photoshop", "image/png"}

\* mimetypes.guess_type(f)[0] on the names of the model
guess_type(f) ==
    IF \E i \in 1..MaxFiles : f = Photo(i) THEN "image/jpeg"
    ELSE IF f = Notes THEN "text/plain"
    ELSE "None"

\* the order sorted() gives the supported names of the model
SortKey(f) == CHOOSE i \in 1..MaxFiles : f = Photo(i)

RECURSIVE sorted(_)
sorted(S) ==
    IF S = {} THEN <<>>
    ELSE LET m == CHOOSE x \in S : \A y \in S : SortKey(x) <= SortKey(y)
         IN  <<m>> \o sorted(S \ {m})

\* _entry_ts: int(long(entry.timestamp.text) / 1000)
_entry_ts(entry) == entry.timestamp \div 1000

(***************************************************************************)
(* run(): the adjustments of the parsed options, lines 297-321             *)
(***************************************************************************)
ClampMaxPhotos(o) ==
    IF o.max_photos > MAX_PHOTOS_PER_ALBUM
    THEN [o EXCEPT !.max_photos = MAX_PHOTOS_PER_ALBUM]
    ELSE o

DefaultBidirectional_downloadOnly(o) ==
    IF ~o.upload /\ ~o.download
    THEN [o EXCEPT !.download = TRUE]
    ELSE o

DefaultBidirectional(o) ==
    IF ~o.upload /\ ~o.download
    THEN [o EXCEPT !.upload = TRUE, !.download = TRUE]
    ELSE o

DisableDeletion_photosOnly(o) ==
    IF (o.delete_photos \/ o.delete_albums) /\ o.upload /\ o.download
    THEN [o EXCEPT !.delete_photos = FALSE]
    ELSE o

DisableDeletion(o) ==
    IF (o.delete_photos \/ o.delete_albums) /\ o.upload /\ o.download
    THEN [o EXCEPT !.delete_photos = FALSE, !.delete_albums = FALSE]
    ELSE o

DisableForceUpdate_never(o) == o

DisableForceUpdate(o) ==
    IF o.force_update /\ o.upload /\ o.download
    THEN [o EXCEPT !.force_update = FALSE]
    ELSE o

ForceImpliesUpdate(o) ==
    IF o.force_update /\ ~o.update
    THEN [o EXCEPT !.update = TRUE]
    ELSE o

RestrictMultiRoot_upload(o) ==
    IF o.path > 1 /\ (o.download \/ o.delete_albums)
    THEN [o EXCEPT !.upload = FALSE, !.delete_albums = FALSE]
    ELSE o

RestrictMultiRoot_downloadOnly(o) ==
    IF o.path > 1 /\ (o.download \/ o.delete_albums)
    THEN [o EXCEPT !.download = FALSE]
    ELSE o

RestrictMultiRoot(o) ==
    IF o.path > 1 /\ (o.download \/ o.delete_albums)
    THEN [o EXCEPT !.download = FALSE, !.delete_albums = FALSE]
    ELSE o

normalize(o) ==
    RestrictMultiRoot(ForceImpliesUpdate(DisableForceUpdate(
        DisableDeletion(DefaultBidirectional(ClampMaxPhotos(o))))))

\* what argparse can hand to run(); path is the number of PATH arguments
ParsedOptions(caps) ==
    [dry_run : BOOLEAN, max_photos : caps, upload : BOOLEAN,
     download : BOOLEAN, update : BOOLEAN, force_update : BOOLEAN,
     delete_photos : BOOLEAN, delete_albums : BOOLEAN, path : 1..MaxPaths]

(***************************************************************************)
(* get_disk_albums                                                         *)
(***************************************************************************)
FilesOf(d, dir) == {f \in d.files : f.dir = dir}

FileAt(d, dir, name) == CHOOSE f \in d.files : f.dir = dir /\ f.name = name

\* supported_files[lo:hi] with 0-based, end-exclusive, clamped indices
Slice(s, lo, hi) == SubSeq(s, lo + 1, Min(hi, Len(s)))

NumChunks_floor(n, max_photos) == n \div max_photos

\* (len(supported_files) + max_photos - 1) / max_photos
NumChunks(n, max_photos) == (n + max_photos - 1) \div max_photos

ChunkTitle(album, i) == album \o " (" \o ToString(i + 1) \o ")"

\* the else branch of line 48
IsSpliced(n, max_photos) == ~(max_photos = 0 \/ n < max_photos)

AlbumsOfDir(d, dirrec, max_photos) ==
    LET names == {f.name : f \in FilesOf(d, dirrec.name)}
        order == sorted({f \in names : guess_type(f) \in supported_types})
        supported_files ==
            [k \in 1..Len(order) |->
                [title |-> order[k],
                 filename |-> [dir |-> dirrec.name, name |-> order[k]],
                 timestamp |-> FileAt(d, dirrec.name, order[k]).mtime]]
        n == Len(supported_files)
        album == dirrec.name
    IN  IF n = 0 THEN {}
        ELSE IF ~IsSpliced(n, max_photos)
        THEN {[title |-> album, dir |-> album, ts |-> dirrec.mtime,
               photos |-> supported_files]}
        ELSE {[title |-> ChunkTitle(album, i), dir |-> album,
               ts |-> dirrec.mtime,
               photos |-> Slice(supported_files, i * max_photos,
                                i * max_photos + max_photos)] :
                 i \in 0..(NumChunks(n, max_photos) - 1)}

get_disk_albums(d, max_photos) ==
    UNION {AlbumsOfDir(d, dirrec, max_photos) : dirrec \in d.dirs}

(***************************************************************************)
(* Values                                                                  *)
(***************************************************************************)
NoEntry == [id |-> 0, title |-> "", timestamp |-> 0]

NoPath == "None"

EmptyDisk == [dirs |-> {}, files |-> {}]

EmptyRemote == [albums |-> {}, photos |-> {}]

NoOptions == [dry_run |-> FALSE, max_photos |-> 0, upload |-> FALSE,
              download |-> FALSE, update |-> FALSE, force_update |-> FALSE,
              delete_photos |-> FALSE, delete_albums |-> FALSE, path |-> 1]

\* a file as the user put it there (src = 0: not written by a download)
LocalFile(dir, name, mtime) ==
    [dir |-> dir, name |-> name, mtime |-> mtime, src |-> 0, complete |-> TRUE]

\* everything sync() keeps, before sync() has run
Idle ==
    /\ nextId = 1
    /\ disk_albums = {}
    /\ picasa_albums = <<>>
    /\ picasa_photos = <<>>
    /\ albums_left = {}
    /\ remote_left = {}
    /\ photos_left = {}
    /\ todo = <<>>
    /\ new_album = NoEntry
    /\ album_path = NoPath
    /\ log = <<>>
    /\ calls = {}
    /\ failure = "none"
    /\ seen = {}
    /\ warned = {}

syncvars == <<nextId, disk_albums, picasa_albums, picasa_photos, albums_left,
              remote_left, photos_left, todo, new_album, album_path, log,
              calls, failure, seen, warned>>

(***************************************************************************)
(* SpecNorm: the adjustments of run() applied to every parsed option set,  *)
(* and applied once more to their own result.                              *)
(***************************************************************************)
NormCaps == {1, MAX_PHOTOS_PER_ALBUM, MAX_PHOTOS_PER_ALBUM + 1}

InitNorm ==
    /\ pc = "parsed"
    /\ argv \in ParsedOptions(NormCaps)
    /\ options = argv
    /\ disk = EmptyDisk /\ disk0 = EmptyDisk
    /\ remote = EmptyRemote /\ remote0 = EmptyRemote
    /\ run = 1
    /\ Idle

Normalize ==
    /\ pc = "parsed"
    /\ options' = normalize(options)
    /\ pc' = "normalized"
    /\ UNCHANGED <<argv, disk, remote, disk0, remote0, syncvars, run>>

NormalizeAgain ==
    /\ pc = "normalized"
    /\ options' = normalize(options)
    /\ pc' = "renormalized"
    /\ UNCHANGED <<argv, disk, remote, disk0, remote0, syncvars, run>>

NextNorm == Normalize \/ NormalizeAgain

SpecNorm == InitNorm /\ [][NextNorm]_vars

(***************************************************************************)
(* SpecSplit: get_disk_albums on one directory "A" holding any subset of   *)
(* MaxFiles supported files and possibly an unsupported one.               *)
(***************************************************************************)
SplitDisks ==
    {[dirs |-> {[name |-> "A", mtime |-> 1]},
      files |-> {LocalFile("A", f, 1) : f \in S}] :
        S \in SUBSET ({Photo(i) : i \in 1..MaxFiles} \cup {Notes})}

InitSplit ==
    /\ pc = "walk"
    /\ argv \in {[NoOptions EXCEPT !.max_photos = c] : c \in 1..MaxCap}
    /\ options = argv
    /\ disk \in SplitDisks /\ disk0 = disk
    /\ remote = EmptyRemote /\ remote0 = EmptyRemote
    /\ run = 1
    /\ Idle

WalkDisk ==
    /\ pc = "walk"
    /\ disk_albums' = get_disk_albums(disk, options.max_photos)
    /\ pc' = "walked"
    /\ UNCHANGED <<argv, options, disk, remote, nextId, picasa_albums,
                   picasa_photos, albums_left, remote_left, photos_left, todo,
                   new_album, album_path, log, calls, failure, seen, disk0,
                   remote0, warned, run>>

NextSplit == WalkDisk

SpecSplit == InitSplit /\ [][NextSplit]_vars

(***************************************************************************)
(* Spec: one run.  Collaborators.                                          *)
(***************************************************************************)
\* the clock of the file system: newer than every file of the initial disk
Now == MaxTs + 1

Append2(s, c, t) == IF c THEN s \o t ELSE s

RECURSIVE Flatten(_)
Flatten(ss) == IF ss = <<>> THEN <<>> ELSE Head(ss) \o Flatten(Tail(ss))

Act(kind, album, photo) == [kind |-> kind, album |-> album, photo |-> photo]

\* dict([(title, entry) ...]) over a feed: one entry per title; which of
\* several entries with one title comes last in the feed is the service's choice
TitleMaps(entries) ==
    LET titles == {e.title : e \in entries}
    IN  {f \in [titles -> entries] : \A t \in titles : f[t].title = t}

PhotosIn(r, album) == {p \in r.photos : p.album = album.id}

DryRunSkips_but_delete_dir(o, fn) == o.dry_run /\ fn # "delete_dir"

\* "if not options or not options.dry_run" of the action function fn
DryRunSkips(o, fn) == o.dry_run

LocalNewer_or_equal(timestamp, photo) == timestamp >= _entry_ts(photo)

\* timestamp > _entry_ts(picasa_photos[photo_title]), line 249
LocalNewer(timestamp, photo) == timestamp > _entry_ts(photo)

LocalOlder_or_equal(timestamp, photo) == timestamp <= _entry_ts(photo)

\* timestamp < _entry_ts(picasa_photos[photo_title]), line 251
LocalOlder(timestamp, photo) == timestamp < _entry_ts(photo)

metadata_timestamp_seconds(timestamp) == timestamp

\* upload_photo, line 106: str(long(timestamp) * 1000)
metadata_timestamp(timestamp) == timestamp * 1000

(***************************************************************************)
(* The statements of sync()'s loop bodies                                  *)
(***************************************************************************)
UploadStmt(album_title, from_new, album, p, replacing) ==
    [op |-> "upload_photo", album_title |-> album_title, new |-> from_new,
     album |-> album, photo_title |-> p.title, filename |-> p.filename,
     timestamp |-> p.timestamp, replacing |-> replacing]

DeleteFileStmt(album_title, p) ==
    [op |-> "delete_file", album_title |-> album_title,
     photo_title |-> p.title, filename |-> p.filename]

DownloadStmt(kind, album_title, from_path, dir, photo) ==
    [op |-> "download_photo", kind |-> kind, album_title |-> album_title,
     from_path |-> from_path, dir |-> dir, photo |-> photo]

LocalOnlyBody_uploadFirst(o, a) ==
    Append2(
        Append2(<<>>, o.upload,
            [k \in 1..Len(a.photos) |->
                UploadStmt(a.title, TRUE, NoEntry, a.photos[k], FALSE)]
            \o <<[op |-> "create_album", title |-> a.title, timestamp |-> a.ts]>>),
        o.download /\ o.delete_albums,
        [k \in 1..Len(a.photos) |-> DeleteFileStmt(a.title, a.photos[k])]
        \o <<[op |-> "delete_dir", title |-> a.dir]>>)

\* lines 228-235: a local album whose title is not in picasa_albums
LocalOnlyBody(o, a) ==
    Append2(
        Append2(<<>>, o.upload,
            <<[op |-> "create_album", title |-> a.title, timestamp |-> a.ts]>>
            \o [k \in 1..Len(a.photos) |->
                   UploadStmt(a.title, TRUE, NoEntry, a.photos[k], FALSE)]),
        o.download /\ o.delete_albums,
        [k \in 1..Len(a.photos) |-> DeleteFileStmt(a.title, a.photos[k])]
        \o <<[op |-> "delete_dir", title |-> a.dir]>>)

\* lines 242-252: one local photo of a common album
LocalPhotoBody(o, a, album, photos, p) ==
    IF p.title \notin DOMAIN photos
    THEN Append2(
            Append2(<<>>, o.upload, <<UploadStmt(a.title, FALSE, album, p, FALSE)>>),
            o.download /\ o.delete_photos, <<DeleteFileStmt(a.title, p)>>)
    ELSE IF o.update
    THEN Append2(
            Append2(<<>>,
                o.upload /\ (LocalNewer(p.timestamp, photos[p.title]) \/ o.force_update),
                <<[op |-> "replace_photo", album_title |-> a.title,
                   album |-> album, photo |-> photos[p.title], local |-> p]>>),
            o.download /\ (LocalOlder(p.timestamp, photos[p.title]) \/ o.force_update),
            <<DownloadStmt("UpdateDownload", a.title, FALSE, a.dir, photos[p.title])>>)
    ELSE <<>>

\* lines 240-259: the body of a common album once its photos are listed
CommonBody(o, a, album, photos) ==
    Flatten([k \in 1..Len(a.photos) |->
                LocalPhotoBody(o, a, album, photos, a.photos[k])])
    \o <<[op |-> "for_remote_photos", album_title |-> a.title,
          from_path |-> FALSE, dir |-> a.dir]>>

RemoteOnlyPhotoBody_unguarded(o, loop, photo) ==
    Append2(
        Append2(<<>>, o.delete_photos,
            <<[op |-> "delete_photo", album_title |-> loop.album_title,
               photo |-> photo]>>),
        o.download,
        <<DownloadStmt("DownloadPhoto", loop.album_title, FALSE, loop.dir, photo)>>)

\* lines 256-259: one remote photo that the local album lacks
RemoteOnlyPhotoBody(o, loop, photo) ==
    Append2(
        Append2(<<>>, o.upload /\ o.delete_photos,
            <<[op |-> "delete_photo", album_title |-> loop.album_title,
               photo |-> photo]>>),
        o.download,
        <<DownloadStmt("DownloadPhoto", loop.album_title, FALSE, loop.dir, photo)>>)

RemoteOnlyBody_deleteUnguarded(o, album) ==
    Append2(
        Append2(<<>>, o.delete_albums,
            <<[op |-> "delete_album", album |-> album]>>),
        o.download,
        <<[op |-> "create_dir", title |-> album.title,
           timestamp |-> _entry_ts(album)],
          [op |-> "get_picasa_photos", common |-> FALSE, album |-> album]>>)

\* lines 263-269: a remote album whose title no local album has
RemoteOnlyBody(o, album) ==
    Append2(
        Append2(<<>>, o.upload /\ o.delete_albums,
            <<[op |-> "delete_album", album |-> album]>>),
        o.download,
        <<[op |-> "create_dir", title |-> album.title,
           timestamp |-> _entry_ts(album)],
          [op |-> "get_picasa_photos", common |-> FALSE, album |-> album]>>)

(***************************************************************************)
(* Initial world                                                           *)
(***************************************************************************)
RunCaps == {1, MAX_PHOTOS_PER_ALBUM + 1}

RemoteTs == {1999, 2000}

InitDisks ==
    {[dirs |-> {[name |-> "A", mtime |-> 1]},
      files |-> {LocalFile("A", Photo(1), t) : t \in T1}
                \cup {LocalFile("A", Photo(2), 1) : x \in T2}] :
        T1 \in {{}} \cup {{t} : t \in 1..MaxTs}, T2 \in {{}, {1}}}

AlbumA == [id |-> 1, title |-> "A", timestamp |-> 1000]
AlbumA1 == [id |-> 2, title |-> ChunkTitle("A", 0), timestamp |-> 2000]

PhotoEntry(id, album, title, ts) ==
    [id |-> id, album |-> album.id, title |-> title, timestamp |-> ts]

\* album "A" holding nothing, Photo(1), or two photos both titled Photo(1);
\* album "A (1)" holding nothing or Photo(2); either album may be missing
InitRemotes ==
    {[albums |-> As \cup Cs,
      photos |-> {p \in Pa \cup Pc : \E al \in As \cup Cs : al.id = p.album}] :
        As \in SUBSET {AlbumA}, Cs \in SUBSET {AlbumA1},
        Pa \in {{}} \cup {{PhotoEntry(3, AlbumA, Photo(1), t)} : t \in RemoteTs}
               \cup {{PhotoEntry(3, AlbumA, Photo(1), 1999),
                      PhotoEntry(5, AlbumA, Photo(1), 2000)}},
        Pc \in SUBSET {PhotoEntry(4, AlbumA1, Photo(2), 1999)}}

Init ==
    /\ pc = "parse"
    /\ argv = NoOptions
    /\ options = NoOptions
    /\ disk \in InitDisks /\ disk0 = disk
    /\ remote \in InitRemotes /\ remote0 = remote
    /\ nextId = 6
    /\ disk_albums = {}
    /\ picasa_albums = <<>>
    /\ picasa_photos = <<>>
    /\ albums_left = {}
    /\ remote_left = {}
    /\ photos_left = {}
    /\ todo = <<>>
    /\ new_album = NoEntry
    /\ album_path = NoPath
    /\ log = <<>>
    /\ calls = {}
    /\ failure = "none"
    /\ seen = {}
    /\ warned = {}
    /\ run = 1

(***************************************************************************)
(* run() and the control flow of sync()                                    *)
(***************************************************************************)
Stmt == Head(todo)

Running == pc \in {"disk_loop", "picasa_loop"} /\ todo # <<>>

Next_(rest) == todo' = rest \o Tail(todo)

Announce(kind, album, photo) == log' = Append(log, Act(kind, album, photo))

\* an exception that nothing catches below main(): the run ends with a traceback
Raise(call) == pc' = "crashed" /\ failure' = call

\* LOG.warn in the except branches of create_dir, delete_dir and delete_file,
\* LOG.error in get_picasa_client: the error is reported and the run goes on
Warn(fn) == warned' = warned \cup {fn}

loopvars == <<albums_left, remote_left, photos_left>>

snapvars == <<disk_albums, picasa_albums, picasa_photos>>

world == <<disk, remote, nextId>>

\* run(), lines 286-326: parse the command line, adjust the options, call sync()
Run ==
    /\ pc = "parse"
    /\ \E a \in ParsedOptions(RunCaps) :
          /\ argv' = a
          /\ options' = normalize(a)
    /\ pc' = "sync"
    /\ UNCHANGED <<world, snapvars, loopvars, todo, new_album, album_path,
                   log, calls, failure, seen, disk0, remote0, warned, run>>

\* lines 218-220: get_picasa_client returned None
NoClient ==
    /\ pc = "sync"
    /\ pc' = "done"
    /\ Warn("get_picasa_client")
    /\ UNCHANGED <<argv, options, world, snapvars, loopvars, todo, new_album,
                   album_path, log, calls, failure, seen, disk0, remote0, run>>

\* line 222 when options.path is still a list: os.walk(list) raises TypeError
WalkRoots ==
    /\ pc = "sync"
    /\ options.path > 1
    /\ Raise("get_disk_albums")
    /\ UNCHANGED <<argv, options, world, snapvars, loopvars, todo, new_album,
                   album_path, log, calls, seen, disk0, remote0, warned, run>>

\* lines 222-223, the album listing fails
ListAlbumsFails ==
    /\ pc = "sync"
    /\ options.path = 1
    /\ disk_albums' = get_disk_albums(disk, options.max_photos)
    /\ Raise("get_picasa_albums")
    /\ UNCHANGED <<argv, options, world, picasa_albums, picasa_photos,
                   loopvars, todo, new_album, album_path, log, calls, seen,
                   disk0, remote0, warned, run>>

\* lines 222-225
ListAlbums ==
    /\ pc = "sync"
    /\ options.path = 1
    /\ disk_albums' = get_disk_albums(disk, options.max_photos)
    /\ picasa_albums' \in TitleMaps(remote.albums)
    /\ albums_left' = disk_albums'
    /\ pc' = "disk_loop"
    /\ UNCHANGED <<argv, options, world, picasa_photos, remote_left,
                   photos_left, todo, new_album, album_path, log, calls,
                   failure, seen, disk0, remote0, warned, run>>

\* lines 225-235: next local album, absent from Picasa
LocalOnlyAlbum ==
    /\ pc = "disk_loop" /\ todo = <<>>
    /\ \E a \in albums_left :
          /\ a.title \notin DOMAIN picasa_albums
          /\ albums_left' = albums_left \ {a}
          /\ todo' = LocalOnlyBody(options, a)
    /\ UNCHANGED <<pc, argv, options, world, snapvars, remote_left,
                   photos_left, new_album, album_path, log, calls, failure,
                   seen, disk0, remote0, warned, run>>

\* lines 225, 237-239: next local album, present in Picasa
CommonAlbum ==
    /\ pc = "disk_loop" /\ todo = <<>>
    /\ \E a \in albums_left :
          /\ a.title \in DOMAIN picasa_albums
          /\ albums_left' = albums_left \ {a}
          /\ todo' = <<[op |-> "get_picasa_photos", common |-> TRUE,
                        album |-> picasa_albums[a.title], local |-> a]>>
    /\ UNCHANGED <<pc, argv, options, world, snapvars, remote_left,
                   photos_left, new_album, album_path, log, calls, failure,
                   seen, disk0, remote0, warned, run>>

\* line 262: the first loop is over
EndDiskLoop ==
    /\ pc = "disk_loop" /\ todo = <<>> /\ albums_left = {}
    /\ remote_left' = {t \in DOMAIN picasa_albums :
                          t \notin {a.title : a \in disk_albums}}
    /\ pc' = "picasa_loop"
    /\ UNCHANGED <<argv, options, world, snapvars, albums_left, photos_left,
                   todo, new_album, album_path, log, calls, failure, seen,
                   disk0, remote0, warned, run>>

\* lines 262-267: next remote album that no local album has
RemoteOnlyAlbum ==
    /\ pc = "picasa_loop" /\ todo = <<>>
    /\ \E t \in remote_left :
          /\ remote_left' = remote_left \ {t}
          /\ todo' = RemoteOnlyBody(options, picasa_albums[t])
    /\ UNCHANGED <<pc, argv, options, world, snapvars, albums_left,
                   photos_left, new_album, album_path, log, calls, failure,
                   seen, disk0, remote0, warned, run>>

\* sync() returns
EndSync ==
    /\ pc = "picasa_loop" /\ todo = <<>> /\ remote_left = {}
    /\ pc' = "done"
    /\ UNCHANGED <<argv, options, world, snapvars, loopvars, todo, new_album,
                   album_path, log, calls, failure, seen,
                   disk0, remote0, warned, run>>

\* get_picasa_photos, lines 239 and 267: the listing fails
ListPhotosFails ==
    /\ Running /\ Stmt.op = "get_picasa_photos"
    /\ Raise("get_picasa_photos")
    /\ UNCHANGED <<argv, options, world, snapvars, loopvars, todo, new_album,
                   album_path, log, calls, seen, disk0, remote0, warned, run>>

\* line 239 and the bodies of lines 240-259 it decides
ListCommonPhotos ==
    /\ Running /\ Stmt.op = "get_picasa_photos" /\ Stmt.common
    /\ Stmt.album \in remote.albums
    /\ \E photos \in TitleMaps(PhotosIn(remote, Stmt.album)) :
          LET a == Stmt.local
              titles == {a.photos[k].title : k \in 1..Len(a.photos)}
          IN  /\ picasa_photos' = photos
              /\ photos_left' = DOMAIN photos \ titles
              /\ seen' = seen \cup
                    {[album |-> a.title, photo |-> a.photos[k].title,
                      local |-> a.photos[k].timestamp,
                      remote |-> photos[a.photos[k].title]] :
                        k \in {j \in 1..Len(a.photos) :
                                  a.photos[j].title \in DOMAIN photos}}
              /\ Next_(CommonBody(options, a, Stmt.album, photos))
    /\ UNCHANGED <<pc, argv, options, world, disk_albums, picasa_albums,
                   albums_left, remote_left, new_album, album_path, log,
                   calls, failure, disk0, remote0, warned, run>>

\* line 267
ListRemoteOnlyPhotos ==
    /\ Running /\ Stmt.op = "get_picasa_photos" /\ ~Stmt.common
    /\ Stmt.album \in remote.albums
    /\ \E photos \in TitleMaps(PhotosIn(remote, Stmt.album)) :
          /\ picasa_photos' = photos
          /\ photos_left' = DOMAIN photos
          /\ Next_(<<[op |-> "for_remote_photos",
                      album_title |-> Stmt.album.title, from_path |-> TRUE,
                      dir |-> NoPath]>>)
    /\ UNCHANGED <<pc, argv, options, world, disk_albums, picasa_albums,
                   albums_left, remote_left, new_album, album_path, log,
                   calls, failure, seen, disk0, remote0, warned, run>>

\* lines 255 and 268: next photo of picasa_photos.iteritems()
NextRemotePhoto ==
    /\ Running /\ Stmt.op = "for_remote_photos"
    /\ \E t \in photos_left :
          /\ photos_left' = photos_left \ {t}
          /\ todo' =
                (IF Stmt.from_path
                 THEN <<DownloadStmt("DownloadPhoto", Stmt.album_title, TRUE,
                                     NoPath, picasa_photos[t])>>
                 ELSE RemoteOnlyPhotoBody(options, Stmt, picasa_photos[t]))
                \o todo
    /\ UNCHANGED <<pc, argv, options, world, snapvars, albums_left,
                   remote_left, new_album, album_path, log, calls, failure,
                   seen, disk0, remote0, warned, run>>

EndRemotePhotos ==
    /\ Running /\ Stmt.op = "for_remote_photos"
    /\ photos_left = {}
    /\ Next_(<<>>)
    /\ UNCHANGED <<pc, argv, options, world, snapvars, loopvars, new_album,
                   album_path, log, calls, failure, seen,
                   disk0, remote0, warned, run>>

(***************************************************************************)
(* The action functions, lines 95-215                                      *)
(***************************************************************************)
Called(names) == calls' = calls \cup names


HasDir(d, name) == \E r \in d.dirs : r.name = name

HasFile(d, dir, name) == \E f \in d.files : f.dir = dir /\ f.name = name

WriteFile(d, rec) ==
    [d EXCEPT !.files =
        {f \in @ : ~(f.dir = rec.dir /\ f.name = rec.name)} \cup {rec}]

\* create_album, lines 141-153
create_album ==
    /\ Running /\ Stmt.op = "create_album"
    /\ Announce("CreateAlbum", Stmt.title, "")
    /\ \/ /\ DryRunSkips(options, "create_album")
          /\ new_album' = NoEntry
          /\ Next_(<<>>)
          /\ UNCHANGED <<pc, failure, world, calls>>
       \/ /\ ~DryRunSkips(options, "create_album")
          /\ Called({"InsertAlbum"})
          /\ LET e == [id |-> nextId, title |-> Stmt.title,
                       timestamp |-> Stmt.timestamp * 1000]
             IN  /\ remote' = [remote EXCEPT !.albums = @ \cup {e}]
                 /\ new_album' = e
          /\ nextId' = nextId + 1
          /\ Next_(<<>>)
          /\ UNCHANGED <<pc, failure, disk>>
       \/ /\ ~DryRunSkips(options, "create_album")
          /\ Called({"InsertAlbum"})
          /\ Raise("InsertAlbum")
          /\ UNCHANGED <<world, new_album, todo>>
    /\ UNCHANGED <<argv, options, snapvars, loopvars, album_path, seen,
                   disk0, remote0, warned, run>>

\* upload_photo, lines 95-107
upload_photo ==
    /\ Running /\ Stmt.op = "upload_photo"
    /\ log' = IF Stmt.replacing THEN log
              ELSE Append(log, Act("UploadPhoto", Stmt.album_title, Stmt.photo_title))
    /\ LET album == IF Stmt.new THEN new_album ELSE Stmt.album
       IN  \/ /\ DryRunSkips(options, "upload_photo")
              /\ Next_(<<>>)
              /\ UNCHANGED <<pc, failure, world, calls>>
           \/ /\ ~DryRunSkips(options, "upload_photo")
              /\ Called({"InsertPhoto"})
              /\ album \in remote.albums
              /\ remote' = [remote EXCEPT !.photos = @ \cup
                              {[id |-> nextId, album |-> album.id,
                                title |-> Stmt.photo_title,
                                timestamp |->
                                    metadata_timestamp(Stmt.timestamp)]}]
              /\ nextId' = nextId + 1
              /\ Next_(<<>>)
              /\ UNCHANGED <<pc, failure, disk>>
           \/ /\ ~DryRunSkips(options, "upload_photo")
              /\ Called({"InsertPhoto"})
              /\ Raise("InsertPhoto")
              /\ UNCHANGED <<world, todo>>
    /\ UNCHANGED <<argv, options, snapvars, loopvars, new_album, album_path,
                   seen, disk0, remote0, warned, run>>

\* delete_photo called from sync(), lines 126-135
delete_photo ==
    /\ Running /\ Stmt.op = "delete_photo"
    /\ Announce("DeletePhoto", Stmt.album_title, Stmt.photo.title)
    /\ \/ /\ DryRunSkips(options, "delete_photo")
          /\ Next_(<<>>)
          /\ UNCHANGED <<pc, failure, world, calls>>
       \/ /\ ~DryRunSkips(options, "delete_photo")
          /\ Called({"Delete"})
          /\ Stmt.photo \in remote.photos
          /\ remote' = [remote EXCEPT !.photos = @ \ {Stmt.photo}]
          /\ Next_(<<>>)
          /\ UNCHANGED <<pc, failure, disk, nextId>>
       \/ /\ ~DryRunSkips(options, "delete_photo")
          /\ Called({"Delete"})
          /\ Raise("Delete")
          /\ UNCHANGED <<world, todo>>
    /\ UNCHANGED <<argv, options, snapvars, loopvars, new_album, album_path,
                   seen, disk0, remote0, warned, run>>

\* replace_photo, lines 137-139: delete_photo, then upload_photo
replace_photo ==
    /\ Running /\ Stmt.op = "replace_photo"
    /\ Announce("ReplacePhoto", Stmt.album_title, Stmt.photo.title)
    /\ \/ /\ DryRunSkips(options, "delete_photo")
          /\ Next_(<<>>)
          /\ UNCHANGED <<pc, failure, world, calls>>
       \/ /\ ~DryRunSkips(options, "delete_photo")
          /\ Called({"Delete"})
          /\ Stmt.photo \in remote.photos
          /\ remote' = [remote EXCEPT !.photos = @ \ {Stmt.photo}]
          /\ Next_(<<UploadStmt(Stmt.album_title, FALSE, Stmt.album,
                                Stmt.local, TRUE)>>)
          /\ UNCHANGED <<pc, failure, disk, nextId>>
       \/ /\ ~DryRunSkips(options, "delete_photo")
          /\ Called({"Delete"})
          /\ Raise("Delete")
          /\ UNCHANGED <<world, todo>>
    /\ UNCHANGED <<argv, options, snapvars, loopvars, new_album, album_path,
                   seen, disk0, remote0, warned, run>>

\* delete_album, lines 155-164
delete_album ==
    /\ Running /\ Stmt.op = "delete_album"
    /\ Announce("DeleteAlbum", Stmt.album.title, "")
    /\ \/ /\ DryRunSkips(options, "delete_album")
          /\ Next_(<<>>)
          /\ UNCHANGED <<pc, failure, world, calls>>
       \/ /\ ~DryRunSkips(options, "delete_album")
          /\ Called({"Delete"})
          /\ Stmt.album \in remote.albums
          /\ remote' = [albums |-> remote.albums \ {Stmt.album},
                        photos |-> remote.photos \ PhotosIn(remote, Stmt.album)]
          /\ Next_(<<>>)
          /\ UNCHANGED <<pc, failure, disk, nextId>>
       \/ /\ ~DryRunSkips(options, "delete_album")
          /\ Called({"Delete"})
          /\ Raise("Delete")
          /\ UNCHANGED <<world, todo>>
    /\ UNCHANGED <<argv, options, snapvars, loopvars, new_album, album_path,
                   seen, disk0, remote0, warned, run>>

\* create_dir, lines 166-185; what os raises is caught and None returned
create_dir ==
    /\ Running /\ Stmt.op = "create_dir"
    /\ Announce("CreateDirectory", Stmt.title, "")
    /\ \/ /\ DryRunSkips(options, "create_dir")
          /\ album_path' = Stmt.title
          /\ UNCHANGED <<disk, calls, warned>>
       \/ /\ ~DryRunSkips(options, "create_dir")
          /\ Called(IF HasDir(disk, Stmt.title) THEN {"utime"}
                    ELSE {"makedirs", "utime"})
          /\ disk' = [disk EXCEPT !.dirs =
                        {r \in @ : r.name # Stmt.title} \cup
                        {[name |-> Stmt.title, mtime |-> Stmt.timestamp]}]
          /\ album_path' = Stmt.title
          /\ UNCHANGED warned
       \/ /\ ~DryRunSkips(options, "create_dir")
          /\ ~HasDir(disk, Stmt.title)
          /\ Called({"makedirs"})
          /\ album_path' = NoPath
          /\ Warn("create_dir")
          /\ UNCHANGED disk
       \/ /\ ~DryRunSkips(options, "create_dir")
          /\ Called(IF HasDir(disk, Stmt.title) THEN {"utime"}
                    ELSE {"makedirs", "utime"})
          /\ disk' = IF HasDir(disk, Stmt.title) THEN disk
                     ELSE [disk EXCEPT !.dirs = @ \cup
                             {[name |-> Stmt.title, mtime |-> Now]}]
          /\ album_path' = NoPath
          /\ Warn("create_dir")
    /\ Next_(<<>>)
    /\ UNCHANGED <<pc, failure, argv, options, remote, nextId, snapvars,
                   loopvars, new_album, seen, disk0, remote0, run>>

\* delete_dir, lines 187-201; what os.rmdir raises is caught
delete_dir ==
    /\ Running /\ Stmt.op = "delete_dir"
    /\ Announce("DeleteDirectory", Stmt.title, "")
    /\ \/ /\ DryRunSkips(options, "delete_dir")
          /\ UNCHANGED <<disk, calls, warned>>
       \/ /\ ~DryRunSkips(options, "delete_dir")
          /\ Called({"rmdir"})
          /\ HasDir(disk, Stmt.title) /\ FilesOf(disk, Stmt.title) = {}
          /\ disk' = [disk EXCEPT !.dirs = {r \in @ : r.name # Stmt.title}]
          /\ UNCHANGED warned
       \/ /\ ~DryRunSkips(options, "delete_dir")
          /\ Called({"rmdir"})
          /\ Warn("delete_dir")
          /\ UNCHANGED disk
    /\ Next_(<<>>)
    /\ UNCHANGED <<pc, failure, argv, options, remote, nextId, snapvars,
                   loopvars, new_album, album_path, seen, disk0, remote0, run>>

\* delete_file, lines 203-215; what os.remove raises is caught
delete_file ==
    /\ Running /\ Stmt.op = "delete_file"
    /\ Announce("DeleteFile", Stmt.album_title, Stmt.photo_title)
    /\ \/ /\ DryRunSkips(options, "delete_file")
          /\ UNCHANGED <<disk, calls, warned>>
       \/ /\ ~DryRunSkips(options, "delete_file")
          /\ Called({"remove"})
          /\ HasFile(disk, Stmt.filename.dir, Stmt.filename.name)
          /\ disk' = [disk EXCEPT !.files =
                        {f \in @ : ~(f.dir = Stmt.filename.dir
                                     /\ f.name = Stmt.filename.name)}]
          /\ UNCHANGED warned
       \/ /\ ~DryRunSkips(options, "delete_file")
          /\ Called({"remove"})
          /\ Warn("delete_file")
          /\ UNCHANGED disk
    /\ Next_(<<>>)
    /\ UNCHANGED <<pc, failure, argv, options, remote, nextId, snapvars,
                   loopvars, new_album, album_path, seen, disk0, remote0, run>>

\* download_photo, lines 109-121: the message and urllib.urlretrieve
download_photo ==
    /\ Running /\ Stmt.op = "download_photo"
    /\ LET path == IF Stmt.from_path THEN album_path ELSE Stmt.dir
           filename == [dir |-> path, name |-> Stmt.photo.title]
           tmp == [dir |-> path, name |-> tmpfilename(filename.name),
                   mtime |-> Now, src |-> Stmt.photo.timestamp,
                   complete |-> TRUE]
       IN  \/ /\ path = NoPath     \* os.path.join(None, ...), line 110
              /\ Raise("os.path.join")
              /\ UNCHANGED <<log, disk, calls, todo>>
           \/ /\ path # NoPath
              /\ Announce(Stmt.kind, Stmt.album_title, Stmt.photo.title)
              /\ DryRunSkips(options, "download_photo")
              /\ Next_(<<>>)
              /\ UNCHANGED <<pc, failure, disk, calls>>
           \/ /\ path # NoPath
              /\ Announce(Stmt.kind, Stmt.album_title, Stmt.photo.title)
              /\ ~DryRunSkips(options, "download_photo")
              /\ Called({"urlretrieve"})
              /\ HasDir(disk, path)
              /\ disk' = WriteFile(disk, tmp)
              /\ Next_(<<[op |-> "utime", filename |-> filename,
                          photo |-> Stmt.photo],
                         [op |-> "rename", filename |-> filename,
                          photo |-> Stmt.photo]>>)
              /\ UNCHANGED <<pc, failure>>
           \/ /\ path # NoPath
              /\ Announce(Stmt.kind, Stmt.album_title, Stmt.photo.title)
              /\ ~DryRunSkips(options, "download_photo")
              /\ Called({"urlretrieve"})
              /\ \/ UNCHANGED disk
                 \/ /\ HasDir(disk, path)
                    /\ disk' = WriteFile(disk, [tmp EXCEPT !.complete = FALSE])
              /\ Raise("urlretrieve")
              /\ UNCHANGED todo
    /\ UNCHANGED <<argv, options, remote, nextId, snapvars, loopvars,
                   new_album, album_path, seen, disk0, remote0, warned, run>>

\* download_photo, lines 122-123: os.utime(tmpfilename, ...)
download_utime ==
    /\ Running /\ Stmt.op = "utime"
    /\ Called({"utime"})
    /\ LET dir == Stmt.filename.dir
           tmp == tmpfilename(Stmt.filename.name)
       IN  \/ /\ HasFile(disk, dir, tmp)
              /\ disk' = WriteFile(disk, [FileAt(disk, dir, tmp) EXCEPT
                                            !.mtime = _entry_ts(Stmt.photo)])
              /\ Next_(<<>>)
              /\ UNCHANGED <<pc, failure>>
           \/ /\ Raise("utime")
              /\ UNCHANGED <<disk, todo>>
    /\ UNCHANGED <<argv, options, remote, nextId, snapvars, loopvars,
                   new_album, album_path, log, seen,
                   disk0, remote0, warned, run>>

\* download_photo, line 124: os.rename(tmpfilename, filename)
download_rename ==
    /\ Running /\ Stmt.op = "rename"
    /\ Called({"rename"})
    /\ LET dir == Stmt.filename.dir
           tmp == tmpfilename(Stmt.filename.name)
       IN  \/ /\ HasFile(disk, dir, tmp)
              /\ disk' = WriteFile(
                    [disk EXCEPT !.files = @ \ {FileAt(disk, dir, tmp)}],
                    [FileAt(disk, dir, tmp) EXCEPT !.name = Stmt.filename.name])
              /\ Next_(<<>>)
              /\ UNCHANGED <<pc, failure>>
           \/ /\ Raise("rename")
              /\ UNCHANGED <<disk, todo>>
    /\ UNCHANGED <<argv, options, remote, nextId, snapvars, loopvars,
                   new_album, album_path, log, seen,
                   disk0, remote0, warned, run>>

Next ==
    \/ Run \/ NoClient \/ WalkRoots \/ ListAlbumsFails \/ ListAlbums
    \/ LocalOnlyAlbum \/ CommonAlbum \/ EndDiskLoop
    \/ RemoteOnlyAlbum \/ EndSync
    \/ ListPhotosFails \/ ListCommonPhotos \/ ListRemoteOnlyPhotos
    \/ NextRemotePhoto \/ EndRemotePhotos
    \/ create_album \/ upload_photo \/ delete_photo \/ replace_photo
    \/ delete_album \/ create_dir \/ delete_dir \/ delete_file
    \/ download_photo \/ download_utime \/ download_rename

Spec == Init /\ [][Next]_vars

(***************************************************************************)
(* SpecTwice: the program is started a second time, with the same command  *)
(* line, after a live run in which nothing failed.                         *)
(***************************************************************************)
Rerun ==
    /\ pc = "done" /\ run = 1
    /\ ~options.dry_run /\ failure = "none" /\ warned = {}
    /\ pc' = "sync"
    /\ run' = 2
    /\ disk0' = disk /\ remote0' = remote
    /\ disk_albums' = {}
    /\ picasa_albums' = <<>>
    /\ picasa_photos' = <<>>
    /\ new_album' = NoEntry
    /\ album_path' = NoPath
    /\ log' = <<>>
    /\ calls' = {}
    /\ seen' = {}
    /\ UNCHANGED <<argv, options, world, loopvars, todo, failure, warned>>

NextTwice == Next \/ Rerun

SpecTwice == Init /\ [][NextTwice]_vars

(***************************************************************************)
(* Claims about the option adjustments (checked under SpecNorm)            *)
(***************************************************************************)
\* C1: whenever upload and download are both requested, the adjusted options
\* have delete_photos, delete_albums and force_update all false, for any
\* number of root paths.
C1_BidirectionalDisablesDanger ==
    (pc \in {"normalized", "renormalized"} /\ argv.upload /\ argv.download)
        => (~options.delete_photos /\ ~options.delete_albums
            /\ ~options.force_update)

C1_Witness ==
    /\ pc = "normalized"
    /\ argv.upload /\ argv.download
    /\ argv.delete_photos /\ argv.delete_albums /\ argv.force_update
    /\ argv.path > 1

\* C2 (as claimed): adjusting the adjusted options gives the same options,
\* for every parsed option set.
C2_Idempotent ==
    pc = "renormalized" => options = normalize(argv)

DownloadOnlyMultiRoot(o) == ~o.upload /\ o.download /\ o.path > 1

\* C2 (amended): adjusting the adjusted options gives the same options for
\* every parsed option set except those that request download without upload
\* together with more than one root path.
C2_IdempotentUnlessDownloadOnlyMultiRoot ==
    (pc = "renormalized" /\ ~DownloadOnlyMultiRoot(argv))
        => options = normalize(argv)

C2_Witness ==
    /\ pc = "renormalized"
    /\ ~DownloadOnlyMultiRoot(argv)
    /\ argv.path > 1 /\ argv.delete_albums /\ argv.force_update
    /\ argv.max_photos > MAX_PHOTOS_PER_ALBUM
    /\ options # argv
    /\ options = normalize(argv)

(***************************************************************************)
(* Claims about get_disk_albums (checked under SpecSplit)                  *)
(***************************************************************************)
\* the supported files of directory "A" in filename order, read off the disk
ExpectedFiles ==
    SelectSeq([i \in 1..MaxFiles |-> Photo(i)],
              LAMBDA f : \E r \in disk.files : r.dir = "A" /\ r.name = f)

AlbumsOfA == {a \in disk_albums : a.dir = "A"}

\* the album that holds chunk i (1-based) of directory "A"
ChunkAlbums(i) ==
    {a \in disk_albums :
        a.title = ChunkTitle("A", i - 1) \/ (i = 1 /\ a.title = "A")}

RECURSIVE ConcatChunks(_)
ConcatChunks(k) ==
    IF k = 0 THEN <<>>
    ELSE ConcatChunks(k - 1) \o
         [j \in 1..Len((CHOOSE a \in ChunkAlbums(k) : TRUE).photos) |->
             (CHOOSE a \in ChunkAlbums(k) : TRUE).photos[j].title]

CeilDiv(n, c) == IF n % c = 0 THEN n \div c ELSE (n \div c) + 1

\* C8: a directory with n >= 1 supported photos and cap c >= 1 yields exactly
\* ceil(n/c) albums, each of at most c photos, all with the same album
\* directory, whose photos concatenated in chunk order are the directory's
\* supported files in filename order.
C8_SplitCorrect ==
    (pc = "walked" /\ Len(ExpectedFiles) >= 1) =>
        LET n == Len(ExpectedFiles)
            c == options.max_photos
            k == CeilDiv(n, c)
        IN  /\ disk_albums = AlbumsOfA
            /\ Cardinality(disk_albums) = k
            /\ \A a \in disk_albums :
                  /\ Len(a.photos) <= c
                  /\ a.dir = "A"
                  /\ \A j \in 1..Len(a.photos) :
                        a.photos[j].filename = [dir |-> "A", name |-> a.photos[j].title]
            /\ \A i \in 1..k : Cardinality(ChunkAlbums(i)) = 1
            /\ ConcatChunks(k) = ExpectedFiles

C8_Witness ==
    /\ pc = "walked"
    /\ Len(ExpectedFiles) = 3
    /\ options.max_photos = 2
    /\ Cardinality(disk_albums) = 2
    /\ \E r \in disk.files : r.name = Notes

\* C9 (as claimed): the directory is spliced into albums titled
\* "<title> (i)" if and only if its supported file count exceeds max_photos;
\* otherwise it yields exactly one album with the unsuffixed title.
C9_SplicedIffExceeds ==
    (pc = "walked" /\ Len(ExpectedFiles) >= 1) =>
        LET n == Len(ExpectedFiles)
            c == options.max_photos
        IN  IF n > c
            THEN \A a \in disk_albums :
                    \E i \in 0..(n - 1) : a.title = ChunkTitle("A", i)
            ELSE /\ Cardinality(disk_albums) = 1
                 /\ \A a \in disk_albums : a.title = "A"

(***************************************************************************)
(* Claims about a run (checked under Spec)                                 *)
(***************************************************************************)
Kinds == {log[i].kind : i \in DOMAIN log}

DeleteKinds == {"DeletePhoto", "DeleteAlbum", "DeleteFile", "DeleteDirectory"}

RemoteMutations == {"InsertAlbum", "InsertPhoto", "Delete"}

Listings == {"get_picasa_albums", "get_picasa_photos"}

Unchanged0 == calls = {} /\ disk = disk0 /\ remote = remote0

\* C3: in a dry run no mutating collaborator operation is invoked, and the
\* file system and the account stay as they were when the run started.
C3_DryRunMutatesNothing ==
    options.dry_run => Unchanged0

C3_Witness ==
    /\ pc = "done" /\ options.dry_run
    /\ {"CreateAlbum", "UploadPhoto", "CreateDirectory", "DownloadPhoto"}
          \subseteq Kinds

\* C4: when the command line asks for deletion together with both directions
\* (or with neither, which defaults to both), the run announces no
\* DeletePhoto, DeleteAlbum, DeleteFile or DeleteDirectory.
C4_BidirectionalNeverDeletes ==
    (/\ pc # "parse"
     /\ argv.upload = argv.download
     /\ (argv.delete_photos \/ argv.delete_albums))
        => Kinds \cap DeleteKinds = {}

C4_Witness ==
    /\ pc = "done" /\ failure = "none" /\ ~options.dry_run
    /\ argv.upload = argv.download
    /\ argv.delete_photos /\ argv.delete_albums
    /\ {"CreateAlbum", "UploadPhoto", "CreateDirectory", "DownloadPhoto"}
          \subseteq Kinds
    /\ LET local == {a.title : a \in disk_albums}
           Has(kind, titles) ==
               \E i \in DOMAIN log : log[i].kind = kind /\ log[i].album \in titles
       IN  /\ Has("UploadPhoto", local \ DOMAIN picasa_albums)
           /\ Has("UploadPhoto", local \cap DOMAIN picasa_albums)
           /\ Has("DownloadPhoto", local \cap DOMAIN picasa_albums)
           /\ Has("DownloadPhoto", DOMAIN picasa_albums \ local)

\* C5 (as claimed): a remote mutation that fails aborts only its own action;
\* the run goes on with the actions that follow and reaches its normal end.
C5_RemoteFailureIsolated ==
    failure \in RemoteMutations
        => pc \in {"disk_loop", "picasa_loop", "done"}

\* C6 (as claimed): when a remote listing fails, no mutation of the file
\* system or of the account has been performed before it.
C6_ListingFailsBeforeMutation ==
    failure \in Listings => Unchanged0

IsFinalName(name) == guess_type(name) \in supported_types

Stamped(f) == f.complete /\ f.mtime = _entry_ts([timestamp |-> f.src])

\* C7: a file written by a download is under its final name only if the
\* transfer completed and its modification time is the remote photo's
\* timestamp; and when rename is the next step, the temporary file is
\* complete and already carries that timestamp.
C7_AtomicDownload ==
    /\ \A f \in disk.files :
          (f.src # 0 /\ IsFinalName(f.name)) => Stamped(f)
    /\ (Running /\ Stmt.op = "rename") =>
          /\ HasFile(disk, Stmt.filename.dir, Stmt.filename.name \o ".part")
          /\ LET f == FileAt(disk, Stmt.filename.dir,
                             Stmt.filename.name \o ".part")
             IN  Stamped(f) /\ f.src = Stmt.photo.timestamp

C7_Witness ==
    /\ pc = "crashed" /\ failure \in {"urlretrieve", "utime"}
    /\ \E f \in disk.files : f.src # 0 /\ IsFinalName(f.name)
    /\ \E f \in disk.files : f.src # 0 /\ ~IsFinalName(f.name) /\ ~Stamped(f)

Logged(kind, c) == \E i \in DOMAIN log : log[i] = Act(kind, c.album, c.photo)

\* C10: for a photo on both sides of a matched album, with update and
\* without force_update, ReplacePhoto is announced iff upload is enabled and
\* the local timestamp is greater than the remote one (in seconds, as
\* _entry_ts reads it), UpdateDownload iff download is enabled and the local
\* timestamp is less, neither when they are equal; without update neither
\* is ever announced.
C10_TimestampResolution ==
    /\ ~options.update => Kinds \cap {"ReplacePhoto", "UpdateDownload"} = {}
    /\ (pc = "done" /\ options.update /\ ~options.force_update) =>
          \A c \in seen :
             /\ Logged("ReplacePhoto", c)
                   <=> (options.upload /\ c.local > c.remote.timestamp \div 1000)
             /\ Logged("UpdateDownload", c)
                   <=> (options.download /\ c.local < c.remote.timestamp \div 1000)
             /\ c.local = c.remote.timestamp \div 1000
                   => ~Logged("ReplacePhoto", c) /\ ~Logged("UpdateDownload", c)

C10_Witness ==
    /\ pc = "done" /\ failure = "none"
    /\ options.update /\ ~options.force_update
    /\ options.upload /\ options.download /\ ~options.dry_run
    /\ \E c \in seen :
          /\ c.local > c.remote.timestamp \div 1000
          /\ c.remote.timestamp % 1000 # 0
          /\ Logged("ReplacePhoto", c)

\* the collections of the two sides when the run started are identical:
\* the same album titles, in every album the same photo titles, and for every
\* photo the local modification time equal to the remote timestamp in seconds
IdenticalState ==
    LET local == get_disk_albums(disk0, options.max_photos)
        ptitles(a) == {a.photos[k].title : k \in 1..Len(a.photos)}
    IN  /\ {a.title : a \in local} = {al.title : al \in remote0.albums}
        /\ \A a \in local : \A al \in remote0.albums :
              al.title = a.title =>
                 /\ ptitles(a) = {p.title : p \in PhotosIn(remote0, al)}
                 /\ \A k \in 1..Len(a.photos) : \A p \in PhotosIn(remote0, al) :
                       p.title = a.photos[k].title
                          => a.photos[k].timestamp = _entry_ts(p)

Updates == {"ReplacePhoto", "UpdateDownload"}

\* C11 (as claimed): on identical collections a run under any adjusted
\* options with update set announces no ReplacePhoto and no UpdateDownload.
C11_NoOpOnIdentical ==
    (pc # "parse" /\ options.update /\ IdenticalState)
        => Kinds \cap Updates = {}

\* C11 (amended): on identical collections a run under any adjusted options
\* with update set and force_update clear announces no ReplacePhoto and no
\* UpdateDownload.
C11_NoOpOnIdenticalWithoutForce ==
    (pc # "parse" /\ options.update /\ ~options.force_update /\ IdenticalState)
        => Kinds \cap Updates = {}

C11_Witness ==
    /\ pc = "done" /\ failure = "none" /\ ~options.dry_run
    /\ options.update /\ ~options.force_update
    /\ options.upload /\ options.download
    /\ IdenticalState
    /\ \E c \in seen : c.remote.timestamp % 1000 # 0
    /\ Kinds \cap Updates = {}

\* the announcements CreateAlbum / UploadPhoto made for the album titled t
UploadsOf(t) ==
    SelectSeq(log, LAMBDA e : e.album = t /\ e.kind \in {"CreateAlbum", "UploadPhoto"})

\* what lines 229-231 announce for the local album a
ExpectedUploads(a) ==
    <<Act("CreateAlbum", a.title, "")>>
    \o [k \in 1..Len(a.photos) |-> Act("UploadPhoto", a.title, a.photos[k].title)]

Range(s) == {s[i] : i \in DOMAIN s}

IsPrefix(s, t) == Len(s) <= Len(t) /\ s = SubSeq(t, 1, Len(s))

\* the body of local album a has been executed to its end
BodyDone(a) ==
    /\ a \notin albums_left
    /\ pc \in {"picasa_loop", "done"} \/ (pc = "disk_loop" /\ todo = <<>>)

LocalOnlyAlbums == {a \in disk_albums : a.title \notin DOMAIN picasa_albums}

LocalKinds == {"DownloadPhoto", "UpdateDownload", "CreateDirectory",
               "DeleteFile", "DeleteDirectory"}

\* C13: when the command line names more than one root path, the adjusted
\* options have download and delete_albums clear; and a run whose options
\* have both clear announces no DownloadPhoto, UpdateDownload,
\* CreateDirectory, DeleteFile, DeleteDirectory or DeleteAlbum.
C13_MultiRootRestriction ==
    /\ (pc # "parse" /\ argv.path > 1)
          => (~options.download /\ ~options.delete_albums)
    /\ (pc # "parse" /\ ~options.download /\ ~options.delete_albums)
          => Kinds \cap (LocalKinds \cup {"DeleteAlbum"}) = {}

C13_Witness ==
    /\ pc = "crashed"
    /\ argv.path > 1 /\ argv.download /\ argv.delete_albums /\ argv.upload
    /\ ~options.download /\ ~options.delete_albums /\ options.upload
    /\ log = <<>>

\* the photos titled `title' that the remote album holds
TitledIn(r, album, title) == {p \in PhotosIn(r, album) : p.title = title}

\* replace_photo has deleted and the upload of the local file is next
ReplaceUploadNext == Running /\ Stmt.op = "upload_photo" /\ Stmt.replacing

\* the first step of a live replace_photo, delete_photo, succeeds:
\* the existing remote photo is removed and nothing is uploaded yet
DeleteComesFirst ==
    (/\ Running /\ Stmt.op = "replace_photo" /\ ~options.dry_run
     /\ pc' # "crashed")
    => /\ Stmt.photo \in remote.photos
       /\ remote'.photos = remote.photos \ {Stmt.photo}
       /\ ReplaceUploadNext'
       /\ Head(todo').photo_title = Stmt.photo.title
       /\ Head(todo').album = Stmt.album

\* C14 (as claimed): a live replace_photo deletes the existing remote photo
\* before it uploads the local file, and once the upload too has succeeded
\* the remote album holds exactly one photo with that title, whose timestamp
\* (in seconds) is the local file's modification time.
C14_ReplaceLeavesExactlyOne ==
    [][/\ DeleteComesFirst
       /\ (ReplaceUploadNext /\ pc' # "crashed")
          => LET S == TitledIn(remote', Stmt.album, Stmt.photo_title)
             IN  /\ Cardinality(S) = 1
                 /\ \A p \in S : _entry_ts(p) = Stmt.timestamp]_vars

\* C14 (amended): a live replace_photo deletes the remote photo that the
\* listing matched before it uploads the local file, and once the upload too
\* has succeeded the album has gained exactly one photo, with that title and
\* with the local file's modification time as its timestamp (in seconds);
\* the album then holds as many photos with that title as before the
\* replacement: exactly one if the title was unique in the album.
C14_ReplaceSwapsOne ==
    [][/\ DeleteComesFirst
       /\ (ReplaceUploadNext /\ pc' # "crashed")
          => LET before == TitledIn(remote, Stmt.album, Stmt.photo_title)
                 after == TitledIn(remote', Stmt.album, Stmt.photo_title)
             IN  /\ before \subseteq after
                 /\ remote'.photos \ remote.photos = after \ before
                 /\ Cardinality(after \ before) = 1
                 /\ \A p \in after \ before : _entry_ts(p) = Stmt.timestamp
                 /\ \A c \in seen :
                       (c.album = Stmt.album_title /\ c.photo = Stmt.photo_title)
                       => /\ c.remote \notin remote'.photos
                          /\ Cardinality(after) =
                                Cardinality(TitledIn(remote0, Stmt.album,
                                                     Stmt.photo_title))]_vars

C14_Witness ==
    /\ pc = "done" /\ failure = "none" /\ ~options.dry_run
    /\ \E c \in seen :
          /\ Logged("ReplacePhoto", c)
          /\ c.remote \in remote0.photos \ remote.photos
          /\ \E p \in remote.photos \ remote0.photos :
                /\ p.title = c.photo /\ p.album = c.remote.album
                /\ _entry_ts(p) = c.local
          /\ \E q \in remote.photos \cap remote0.photos :
                q.title = c.photo /\ q.album = c.remote.album

RemoteKinds == {"CreateAlbum", "UploadPhoto", "ReplacePhoto", "DeletePhoto",
                "DeleteAlbum"}

LocalMutations == {"makedirs", "utime", "rmdir", "remove", "urlretrieve",
                   "rename"}

\* C15: a run whose options have upload clear announces no CreateAlbum,
\* UploadPhoto, ReplacePhoto, DeletePhoto or DeleteAlbum, invokes no remote
\* mutation and leaves the account as it was; a run whose options have
\* download clear announces no DownloadPhoto, UpdateDownload,
\* CreateDirectory, DeleteFile or DeleteDirectory, invokes no file system
\* mutation and leaves the file system as it was.
C15_DirectionFrame ==
    pc # "parse" =>
       /\ ~options.upload =>
             /\ Kinds \cap RemoteKinds = {}
             /\ calls \cap RemoteMutations = {}
             /\ remote = remote0
       /\ ~options.download =>
             /\ Kinds \cap LocalKinds = {}
             /\ calls \cap LocalMutations = {}
             /\ disk = disk0

C15_Witness ==
    /\ pc = "done" /\ failure = "none" /\ ~options.dry_run
    /\ ~options.upload /\ options.download
    /\ options.delete_photos /\ options.delete_albums /\ options.force_update
    /\ {"DownloadPhoto", "UpdateDownload", "DeleteFile"} \subseteq Kinds
    /\ disk # disk0 /\ remote = remote0
    /\ \E al \in remote.albums : al.title \notin {a.title : a \in disk_albums}

(***************************************************************************)
(* Claims about two runs in a row (checked under SpecTwice)                *)
(***************************************************************************)
\* no two photos of one remote album share a title
UniqueTitles(r) ==
    \A p, q \in r.photos : (p.album = q.album /\ p.title = q.title) => p = q

\* C16 (as claimed): after a live run in which nothing failed, a second run
\* with the same options, force_update clear, announces no action at all.
\* Stated for second runs that start on an account whose photo titles are
\* unique within each album, where a listing does not depend on the order
\* of the feed.
C16_SecondRunIsSilent ==
    (run = 2 /\ ~options.force_update /\ UniqueTitles(remote0)) => log = <<>>

\* nothing has failed so far in this run
NothingFailed == failure = "none" /\ warned = {}

C18_OneDirectionSurvives ==
    pc \in {"normalized", "renormalized"}
        => (options.upload \/ options.download)

\* C18 (amended): the adjusted options have upload or download set, except
\* when the command line requests download without upload together with
\* more than one root path; then the adjusted options have neither.
C18_OneDirectionUnlessDownloadOnlyMultiRoot ==
    pc = "normalized" =>
        IF DownloadOnlyMultiRoot(argv)
        THEN ~options.upload /\ ~options.download
        ELSE options.upload \/ options.download

C18_Witness ==
    /\ pc = "normalized"
    /\ ~argv.upload /\ ~argv.download /\ argv.path > 1
    /\ argv.delete_albums
    /\ options.upload /\ ~options.download

(***************************************************************************)
(* Further claims about a run (checked under Spec)                         *)
(***************************************************************************)
\* C19: under the options run() hands to sync(), no photo that is on both
\* sides of a matched album gets both a ReplacePhoto and an UpdateDownload
\* announced in one run, and neither is announced twice.
C19_NoPingPong ==
    \A c \in seen :
        /\ ~(Logged("ReplacePhoto", c) /\ Logged("UpdateDownload", c))
        /\ Cardinality({i \in DOMAIN log :
                          /\ log[i].kind \in Updates
                          /\ log[i].album = c.album
                          /\ log[i].photo = c.photo}) <= 1

C19_Witness ==
    /\ pc = "done" /\ failure = "none" /\ ~options.dry_run
    /\ argv.upload /\ argv.download /\ argv.force_update
    /\ options.update
    /\ \E c \in seen :
          Logged("ReplacePhoto", c) /\ ~Logged("UpdateDownload", c)

\* the remote albums that this run has created or uploaded into
UploadedInto ==
    {al \in remote.albums :
        al \notin remote0.albums
        \/ PhotosIn(remote, al) \ remote0.photos # {}}

\* C20 (as claimed): if every remote album holds at most max_photos photos
\* when a live run with upload enabled starts, then at its end every remote
\* album the run has created or uploaded into holds at most max_photos
\* photos.
C20_RemoteCapKept ==
    (/\ pc = "done" /\ ~options.dry_run /\ options.upload
     /\ \A al \in remote0.albums :
           Cardinality(PhotosIn(remote0, al)) <= options.max_photos)
    => \A al \in UploadedInto :
          Cardinality(PhotosIn(remote, al)) <= options.max_photos

====
